---- MODULE Spec2Model ----
(***************************************************************************)
(* Model of esp32_powermeter_mqtt.ino: a pulse interrupt handler (isr)     *)
(* that derives power and energy from the time of each pulse, and the      *)
(* main loop that publishes the window's average every uiUpdate seconds,   *)
(* handles the 'c' / 'r' commands and re-runs setup() on session loss.     *)
(*                                                                         *)
(* A double is modelled as an exact fraction <<n, d>> in lowest terms,     *)
(* d > 0; <<0, 0>> is NaN and <<1, 0>> is +Infinity.  Rounding of the      *)
(* binary representation is not modelled.  Times are in milliseconds, as   *)
(* millis() returns them; they stay far below 2^32 within the bounds.      *)
(***************************************************************************)
EXTENDS Integers, Sequences, FiniteSets, TLC

(* ------------------------------ bounds -------------------------------- *)
\* number of edges (isr invocations) in a behaviour
MaxEdges == 2
\* number of connection losses in a behaviour
MaxDrops == 1
\* number of window reports in a behaviour
MaxReports == 1
\* longest connection loss, in ms
MaxOutage == 3500

\* the intervals since ulStartTime, in ms, at which an edge may arrive
EdgeIntervals == {90, 91, 1000, 2000, 60000}
\* the times since the window start, in ms, of the loop iterations in which
\* a command may arrive
CmdOffsets == {1000, 59000}
\* the times since the window start, in ms, at which the connection may drop
DropOffsets == {0, 59000, 60000}
\* the first bytes a command message may carry
CmdBytes == {"c", "r", "x"}

(* ------------------------- program constants --------------------------- *)
HOUR == 3600
PULSES_KWH_RES == 1
MAX_POWER == 7040
uiUpdate == 60
\* SECOND_ISR_PERIOD, 0.09 s, as a fraction
SECOND_ISR_PERIOD == <<9, 100>>
\* PubSubClient states: MQTT_CONNECTED, MQTT_DISCONNECTED, MQTT_CONNECTION_LOST
MQTT_CONNECTED == 0
MQTT_DISCONNECTED == -1
MQTT_CONNECTION_LOST == -3

(* ------------------------- double arithmetic --------------------------- *)
Abs(n) == IF n < 0 THEN -n ELSE n

RECURSIVE GCD(_, _)
GCD(a, b) == IF b = 0 THEN a ELSE GCD(b, a % b)

Norm(n, d) ==
  IF d = 0 THEN <<IF n = 0 THEN 0 ELSE 1, 0>>
  ELSE LET s == IF d < 0 THEN -1 ELSE 1
           g == GCD(Abs(n), Abs(d))
       IN <<(s * n) \div g, (s * d) \div g>>

R(n) == <<n, 1>>
Zero == <<0, 1>>
NaN == <<0, 0>>
IsFinite(x) == x[2] # 0

RAdd(x, y) == Norm(x[1] * y[2] + y[1] * x[2], x[2] * y[2])
RSub(x, y) == Norm(x[1] * y[2] - y[1] * x[2], x[2] * y[2])
RMul(x, y) == Norm(x[1] * y[1], x[2] * y[2])
RDiv(x, y) == Norm(x[1] * y[2], x[2] * y[1])
RLeq(x, y) == x[1] * y[2] <= y[1] * x[2]
RLess(x, y) == x[1] * y[2] < y[1] * x[2]

\* String(double): two decimal places, rounded half up; "nan" and "inf" for
\* the non-finite values.  The result is kept as hundredths over 100.
String2(x) ==
  IF ~IsFinite(x) THEN x
  ELSE <<(200 * x[1] + x[2]) \div (2 * x[2]), 100>>

\* unsigned subtraction of two millis() values
ElapsedMs(t, since) == t - since

(* ------------------------------- state --------------------------------- *)
VARIABLES
  \* the sketch's globals
  ulPreviousMillis, ulCurrentMillis, dPulsePeriod, dPower, ulStartTime,
  dKWh, uiIsrCount, dTotalW,
  \* the main context: its position, the operands loaded for line 282, the
  \* pending delay() and where setup() returns to
  pc, ldTotalW, ldCount, wake, after, inLoop,
  \* the hardware and the session: millis(), interrupt attachment, network,
  \* the client's socket and PubSubClient's _state
  now, attached, netUp, downAt, sock, clientState,
  \* what the report in progress handed to publish(), and whether it was sent
  pubWatts, pubKWh, okWatts, okKWh,
  \* history: counters of the bounded inputs
  edges, drops, reports,
  \* history: the last interval isr measured; the first byte of the message
  \* client.loop() has just handed to callback()
  lastInterval, lastCmd,
  \* history: totals of the accepted samples that no report has used and
  \* no clear command has removed yet
  gOwed,
  \* history: time of the last accepted edge, and the spacings and powers
  \* of the samples accepted since the last report; whether isr ran inside
  \* the report block
  lastEdgeAt, winSpacings, winPowers, raced,
  \* history: the energy that the reset of line 292, or a restart, has just
  \* removed
  drained

globals == <<ulPreviousMillis, ulCurrentMillis, dPulsePeriod, dPower,
             ulStartTime, dKWh, uiIsrCount, dTotalW>>
mainCtx == <<pc, ldTotalW, ldCount, wake, after, inLoop>>
session == <<netUp, downAt, sock, clientState>>
outputs == <<pubWatts, pubKWh, okWatts, okKWh>>
budgets == <<edges, drops, reports>>
history == <<lastInterval, lastCmd, gOwed, lastEdgeAt,
             winSpacings, winPowers, raced, drained>>
vars == <<globals, mainCtx, now, attached, session, outputs, budgets, history>>

None == << >>
Totals(c, p, e) == [count |-> c, power |-> p, energy |-> e]

\* positions of the main context inside the report block, lines 279-292
ReportPcs == {"L282", "L282tw", "L282cnt", "L282div", "L285", "L286",
              "L289", "L290", "L291", "L292"}

\* the globals as initialised at lines 51-58, before setup() runs
Boot ==
  /\ ulPreviousMillis = 0 /\ ulCurrentMillis = 0
  /\ dPulsePeriod = Zero /\ dPower = Zero /\ ulStartTime = 0
  /\ dKWh = Zero /\ uiIsrCount = 0 /\ dTotalW = Zero
  /\ pc = "L157" /\ ldTotalW = Zero /\ ldCount = 0
  /\ wake = 0 /\ after = "L157" /\ inLoop = FALSE
  /\ now = 0 /\ attached = FALSE
  /\ sock = FALSE /\ clientState = MQTT_DISCONNECTED
  /\ pubWatts = None /\ pubKWh = None /\ okWatts = FALSE /\ okKWh = FALSE
  /\ lastInterval = -1
  /\ gOwed = Totals(0, Zero, Zero)
  /\ lastEdgeAt = 0 /\ winSpacings = {} /\ winPowers = {} /\ raced = FALSE
  /\ drained = Zero

Init ==
  /\ Boot
  /\ netUp = TRUE /\ downAt = 0
  /\ lastCmd = ""
  /\ edges = 0 /\ drops = 0 /\ reports = 0

(* --------------------------- interrupt handler ------------------------- *)
\* line 71: the measured period in seconds, from the two millis() values
PulsePeriod(t, start) == RDiv(R(ElapsedMs(t, start)), R(1000))

\* line 74 with < for <=
DebouncedStrict(period) == RLess(period, SECOND_ISR_PERIOD)

\* line 74: the edge is ignored
Debounced(period) == RLeq(period, SECOND_ISR_PERIOD)

\* line 84
InstantPower(period) == RMul(RDiv(R(PULSES_KWH_RES), period), R(HOUR))

\* lines 87-91 left out
Unfiltered(power) == power

\* lines 87-91: a reading above MAX_POWER is reset to 0.0
Filtered(power) == IF RLess(R(MAX_POWER), power) THEN Zero ELSE power

\* line 97 without the factor dPulsePeriod / HOUR of one pulse: the power
\* taken to have lasted one second
EnergyPerSecond(period, power) == RDiv(power, R(HOUR * 1000))

\* line 97: the energy one sample adds
EnergyOf(period, power) == RMul(RDiv(period, R(HOUR)), RDiv(power, R(1000)))

\* line 97 with -= for +=
SubEnergy(kwh, period, power) == RSub(kwh, EnergyOf(period, power))

\* line 97: dKWh += ...
AddEnergy(kwh, period, power) == RAdd(kwh, EnergyOf(period, power))

\* isr() returning to the main context after line 83, with lines 84-97 of
\* the sample not yet executed
isrCountOnly ==
  /\ attached
  /\ edges < MaxEdges
  /\ ElapsedMs(now, ulStartTime) \in EdgeIntervals
  /\ edges' = edges + 1
  /\ lastInterval' = ElapsedMs(now, ulStartTime)
  /\ LET period == PulsePeriod(now, ulStartTime)
         power == Filtered(InstantPower(period))
     IN IF Debounced(period)
        THEN /\ dPulsePeriod' = Zero
             /\ UNCHANGED <<dPower, dKWh, uiIsrCount, dTotalW>>
             /\ UNCHANGED <<gOwed, lastEdgeAt, winSpacings, winPowers, raced>>
        ELSE /\ dPulsePeriod' = period
             /\ uiIsrCount' = uiIsrCount + 1
             /\ UNCHANGED <<dPower, dTotalW, dKWh>>
             /\ gOwed' = Totals(gOwed.count + 1, RAdd(gOwed.power, power),
                                RAdd(gOwed.energy, EnergyOf(period, power)))
             /\ lastEdgeAt' = now
             /\ winSpacings' = winSpacings \cup {now - lastEdgeAt}
             /\ winPowers' = winPowers \cup {power}
             /\ raced' = (raced \/ pc \in ReportPcs)
  /\ UNCHANGED <<ulPreviousMillis, ulCurrentMillis, ulStartTime>>
  /\ UNCHANGED <<mainCtx, now, attached, session, outputs>>
  /\ UNCHANGED <<drops, reports, lastCmd, drained>>

\* isr(), lines 66-101.  It runs to completion: the main context resumes only
\* after it returns.  It may preempt the main context anywhere, once attached.
isr ==
  /\ attached
  /\ edges < MaxEdges
  /\ ElapsedMs(now, ulStartTime) \in EdgeIntervals
  /\ edges' = edges + 1
  /\ lastInterval' = ElapsedMs(now, ulStartTime)
  /\ LET period == PulsePeriod(now, ulStartTime)
         power == Filtered(InstantPower(period))
     IN IF Debounced(period)
        THEN /\ dPulsePeriod' = Zero
             /\ UNCHANGED <<dPower, dKWh, uiIsrCount, dTotalW>>
             /\ UNCHANGED <<gOwed, lastEdgeAt, winSpacings, winPowers, raced>>
        ELSE /\ dPulsePeriod' = period
             /\ uiIsrCount' = uiIsrCount + 1
             /\ dPower' = power
             /\ dTotalW' = RAdd(dTotalW, power)
             /\ dKWh' = AddEnergy(dKWh, period, power)
             /\ gOwed' = Totals(gOwed.count + 1, RAdd(gOwed.power, power),
                                RAdd(gOwed.energy, EnergyOf(period, power)))
             /\ lastEdgeAt' = now
             /\ winSpacings' = winSpacings \cup {now - lastEdgeAt}
             /\ winPowers' = winPowers \cup {power}
             /\ raced' = (raced \/ pc \in ReportPcs)
  /\ UNCHANGED <<ulPreviousMillis, ulCurrentMillis, ulStartTime>>
  /\ UNCHANGED <<mainCtx, now, attached, session, outputs>>
  /\ UNCHANGED <<drops, reports, lastCmd, drained>>

(* ------------------------------- setup() ------------------------------- *)
\* delay(ms): the main context sleeps until `wake`, then goes on at `next`
Sleep(ms, next) == /\ pc' = "delay" /\ wake' = now + ms /\ after' = next

\* lines 157-164 without line 164: the window start is left as it is
setupKeepsWindow ==
  /\ pc = "L157"
  /\ attached' = TRUE
  /\ ulStartTime' = now
  /\ ulPreviousMillis' = ulPreviousMillis
  /\ lastEdgeAt' = now
  /\ pc' = "L173"
  /\ UNCHANGED <<ulCurrentMillis, dPulsePeriod, dPower, dKWh, uiIsrCount, dTotalW>>
  /\ UNCHANGED <<ldTotalW, ldCount, wake, after, inLoop>>
  /\ UNCHANGED <<now, session, outputs, budgets>>
  /\ lastCmd' = ""
  /\ drained' = Zero
  /\ UNCHANGED <<lastInterval, gOwed, winSpacings, winPowers, raced>>

\* lines 157-164: attach the handler, take the two time references
setup ==
  /\ pc = "L157"
  /\ attached' = TRUE
  /\ ulStartTime' = now
  /\ ulPreviousMillis' = now
  /\ lastEdgeAt' = now
  /\ pc' = "L173"
  /\ UNCHANGED <<ulCurrentMillis, dPulsePeriod, dPower, dKWh, uiIsrCount, dTotalW>>
  /\ UNCHANGED <<ldTotalW, ldCount, wake, after, inLoop>>
  /\ UNCHANGED <<now, session, outputs, budgets>>
  /\ lastCmd' = ""
  /\ drained' = Zero
  /\ UNCHANGED <<lastInterval, gOwed, winSpacings, winPowers, raced>>

\* lines 173-180: wait for the network, 500 ms at a time
setupWifi ==
  /\ pc = "L173"
  /\ IF netUp
     THEN pc' = "L187" /\ UNCHANGED <<wake, after>>
     ELSE Sleep(500, "L173")
  /\ UNCHANGED <<ldTotalW, ldCount, inLoop>>
  /\ UNCHANGED <<globals, now, attached, session, outputs, budgets, history>>

\* lines 187-254: connect to the broker, 2 s between attempts; then return,
\* to loop() at boot and to the delay(1000) of line 308 when loop() called
\* setup()
setupMqtt ==
  /\ pc = "L187"
  /\ IF netUp
     THEN /\ sock' = TRUE
          /\ clientState' = MQTT_CONNECTED
          /\ IF inLoop
             THEN Sleep(1000, "L263")
             ELSE pc' = "L263" /\ UNCHANGED <<wake, after>>
     ELSE /\ Sleep(2000, "L187")
          /\ UNCHANGED <<sock, clientState>>
  /\ UNCHANGED <<ldTotalW, ldCount, inLoop, netUp, downAt>>
  /\ UNCHANGED <<globals, now, attached, outputs, budgets, history>>

(* ---------------------------- the session ------------------------------ *)
\* line 277 with > for >=
ReportDueStrict(cur, prev) == ElapsedMs(cur, prev) > uiUpdate * 1000

\* line 277
ReportDue(cur, prev) == ElapsedMs(cur, prev) >= uiUpdate * 1000

\* a loop iteration that starts at time t has something to do, or something
\* can happen to it: a report is due, a command or a connection loss may
\* arrive, or an edge may arrive while it sleeps
Busy(t) ==
  \/ ReportDue(t, ulPreviousMillis)
  \/ ElapsedMs(t, ulPreviousMillis) \in CmdOffsets \cup DropOffsets
  \/ \E i \in EdgeIntervals : t < ulStartTime + i /\ ulStartTime + i < t + 1000

\* PubSubClient::connected(): true when the socket is open and the state is
\* MQTT_CONNECTED; a closed socket turns MQTT_CONNECTED into
\* MQTT_CONNECTION_LOST
Connected == sock /\ clientState = MQTT_CONNECTED
StateAfterCheck ==
  IF ~sock /\ clientState = MQTT_CONNECTED THEN MQTT_CONNECTION_LOST
  ELSE clientState

\* the positions at which the main context looks at the socket or at the
\* network next: a loss or a recovery shows only there, so it is taken
\* right before one of them
SessionReads == {"L263", "L285", "L286", "L173", "L187"}
NetworkReads == {"L173", "L187"}

\* the network or the broker goes away: the socket is closed under the client
netDown ==
  /\ netUp
  /\ pc \in SessionReads
  /\ drops < MaxDrops
  /\ ElapsedMs(now, ulPreviousMillis) \in DropOffsets
  /\ netUp' = FALSE
  /\ downAt' = now
  /\ sock' = FALSE
  /\ drops' = drops + 1
  /\ UNCHANGED <<globals, mainCtx, now, attached, clientState, outputs, history>>
  /\ UNCHANGED <<edges, reports>>

\* the network and the broker are back
netRestore ==
  /\ ~netUp
  /\ pc \in NetworkReads
  /\ netUp' = TRUE
  /\ downAt' = 0
  /\ UNCHANGED <<globals, mainCtx, now, attached, sock, clientState, outputs,
                 budgets, history>>

(* ------------------- callback(), from client.loop() -------------------- *)
\* lines 263-264 when no message is waiting
clientLoop ==
  /\ pc = "L263"
  /\ Busy(now) \/ ~Connected
  /\ clientState' = StateAfterCheck
  /\ pc' = "L274"
  /\ UNCHANGED <<ldTotalW, ldCount, wake, after, inLoop>>
  /\ UNCHANGED <<globals, now, attached, netUp, downAt, sock, outputs, budgets, history>>

\* line 129 clearing the window totals as well
ClearAll ==
  /\ dKWh' = Zero
  /\ dTotalW' = Zero
  /\ uiIsrCount' = 0
  /\ UNCHANGED <<ulPreviousMillis, ulCurrentMillis, dPulsePeriod, dPower,
                 ulStartTime>>

\* line 129: the effect of the 'c' command on the globals
ClearEffect ==
  /\ dKWh' = Zero
  /\ UNCHANGED <<ulPreviousMillis, ulCurrentMillis, dPulsePeriod, dPower,
                 ulStartTime, uiIsrCount, dTotalW>>

\* line 126 with the test turned into "not 'r'"
IsClearLoose(b) == b # "r"

\* line 126: the first byte selects the clear command
IsClear(b) == b = "c"

\* lines 109-143 for a message whose first byte is neither 'r' nor absent:
\* client.loop() at line 263 hands it to callback()
callback(b) ==
  /\ pc = "L263"
  /\ Connected
  /\ ElapsedMs(now, ulPreviousMillis) \in CmdOffsets
  /\ b # "r"
  /\ lastCmd' = b
  /\ IF IsClear(b)
     THEN ClearEffect /\ gOwed' = [gOwed EXCEPT !.energy = RSub(@, dKWh)]
     ELSE UNCHANGED <<globals, gOwed>>
  /\ pc' = "L274"
  /\ UNCHANGED <<ldTotalW, ldCount, wake, after, inLoop>>
  /\ UNCHANGED <<now, attached, session, outputs, budgets>>
  /\ UNCHANGED <<lastInterval, lastEdgeAt, winSpacings, winPowers, raced,
                 drained>>

\* lines 131-137 if dKWh were kept across the restart
restartKeepsEnergy ==
  /\ pc = "L263"
  /\ Connected
  /\ ElapsedMs(now, ulPreviousMillis) \in CmdOffsets
  /\ lastCmd' = "r"
  /\ ulPreviousMillis' = 0 /\ ulCurrentMillis' = 0
  /\ dPulsePeriod' = Zero /\ dPower' = Zero /\ ulStartTime' = 0
  /\ dKWh' = dKWh /\ uiIsrCount' = 0 /\ dTotalW' = Zero
  /\ pc' = "L157" /\ ldTotalW' = Zero /\ ldCount' = 0
  /\ wake' = 0 /\ after' = "L157" /\ inLoop' = FALSE
  /\ now' = 0 /\ attached' = FALSE
  /\ sock' = FALSE /\ clientState' = MQTT_DISCONNECTED
  /\ pubWatts' = None /\ pubKWh' = None /\ okWatts' = FALSE /\ okKWh' = FALSE
  /\ lastInterval' = -1
  /\ gOwed' = Totals(0, Zero, Zero)
  /\ lastEdgeAt' = 0 /\ winSpacings' = {} /\ winPowers' = {} /\ raced' = FALSE
  /\ drained' = Zero
  /\ UNCHANGED <<netUp, downAt, edges, drops, reports>>

\* lines 131-137: 'r' calls ESP.restart(); the sketch starts again from its
\* initial globals, with millis() back at 0
restart ==
  /\ pc = "L263"
  /\ Connected
  /\ ElapsedMs(now, ulPreviousMillis) \in CmdOffsets
  /\ lastCmd' = "r"
  /\ ulPreviousMillis' = 0 /\ ulCurrentMillis' = 0
  /\ dPulsePeriod' = Zero /\ dPower' = Zero /\ ulStartTime' = 0
  /\ dKWh' = Zero /\ uiIsrCount' = 0 /\ dTotalW' = Zero
  /\ pc' = "L157" /\ ldTotalW' = Zero /\ ldCount' = 0
  /\ wake' = 0 /\ after' = "L157" /\ inLoop' = FALSE
  /\ now' = 0 /\ attached' = FALSE
  /\ sock' = FALSE /\ clientState' = MQTT_DISCONNECTED
  /\ pubWatts' = None /\ pubKWh' = None /\ okWatts' = FALSE /\ okKWh' = FALSE
  /\ lastInterval' = -1
  /\ gOwed' = Totals(0, Zero, Zero)
  /\ lastEdgeAt' = 0 /\ winSpacings' = {} /\ winPowers' = {} /\ raced' = FALSE
  /\ drained' = dKWh
  /\ UNCHANGED <<netUp, downAt, edges, drops, reports>>

(* ------------------------------- loop() -------------------------------- *)
\* lines 274-279: take the time; when a window has elapsed, restart the
\* window and enter the report block
loopCheck ==
  /\ pc = "L274"
  /\ ulCurrentMillis' = now
  /\ IF ReportDue(now, ulPreviousMillis)
     THEN /\ ulPreviousMillis' = now
          /\ pc' = "L282"
          /\ reports' = reports + 1
          /\ raced' = FALSE
     ELSE /\ pc' = "L297"
          /\ UNCHANGED <<ulPreviousMillis, reports, raced>>
  /\ lastCmd' = ""
  /\ UNCHANGED <<dPulsePeriod, dPower, ulStartTime, dKWh, uiIsrCount, dTotalW>>
  /\ UNCHANGED <<ldTotalW, ldCount, wake, after, inLoop>>
  /\ UNCHANGED <<now, attached, session, outputs, edges, drops>>
  /\ UNCHANGED <<lastInterval, gOwed, lastEdgeAt, winSpacings, winPowers, drained>>

\* line 282: the two volatile operands are loaded one after the other, in
\* an order the language leaves to the compiler
loadTotalW ==
  /\ pc \in {"L282", "L282tw"}
  /\ ldTotalW' = dTotalW
  /\ pc' = IF pc = "L282" THEN "L282cnt" ELSE "L282div"
  /\ UNCHANGED <<ldCount, wake, after, inLoop>>
  /\ UNCHANGED <<globals, now, attached, session, outputs, budgets, history>>

loadCount ==
  /\ pc \in {"L282", "L282cnt"}
  /\ ldCount' = uiIsrCount
  /\ pc' = IF pc = "L282" THEN "L282tw" ELSE "L282div"
  /\ UNCHANGED <<ldTotalW, wake, after, inLoop>>
  /\ UNCHANGED <<globals, now, attached, session, outputs, budgets, history>>

\* line 282: double divided by unsigned int; 0.0 / 0 is NaN
Average(total, count) == RDiv(total, R(count))

\* line 282: the quotient is stored in dPower
storeAverage ==
  /\ pc = "L282div"
  /\ dPower' = Average(ldTotalW, ldCount)
  /\ gOwed' = [gOwed EXCEPT !.count = @ - ldCount, !.power = RSub(@, ldTotalW)]
  /\ pc' = "L285"
  /\ UNCHANGED <<ulPreviousMillis, ulCurrentMillis, dPulsePeriod, ulStartTime,
                 dKWh, uiIsrCount, dTotalW>>
  /\ UNCHANGED <<ldTotalW, ldCount, wake, after, inLoop>>
  /\ UNCHANGED <<now, attached, session, outputs, budgets>>
  /\ UNCHANGED <<lastInterval, lastCmd, lastEdgeAt, winSpacings, winPowers,
                 raced, drained>>

\* line 285: publish String(dPower) on the watts topic
publishWatts ==
  /\ pc = "L285"
  /\ pubWatts' = String2(dPower)
  /\ okWatts' = Connected
  /\ clientState' = StateAfterCheck
  /\ pc' = "L286"
  /\ UNCHANGED <<ldTotalW, ldCount, wake, after, inLoop>>
  /\ UNCHANGED <<globals, now, attached, netUp, downAt, sock, pubKWh, okKWh, budgets,
                 history>>

\* line 286 if a failed publish left the block, keeping the totals for a
\* later attempt
publishKWhOrKeep ==
  /\ pc = "L286"
  /\ pubKWh' = String2(dKWh)
  /\ okKWh' = Connected
  /\ clientState' = StateAfterCheck
  /\ gOwed' = [gOwed EXCEPT !.energy = RSub(@, dKWh)]
  /\ pc' = IF Connected THEN "L289" ELSE "L297"
  /\ UNCHANGED <<ldTotalW, ldCount, wake, after, inLoop>>
  /\ UNCHANGED <<globals, now, attached, netUp, downAt, sock, pubWatts,
                 okWatts, budgets>>
  /\ UNCHANGED <<lastInterval, lastCmd, lastEdgeAt, winSpacings, winPowers,
                 raced, drained>>

\* line 286: publish String(dKWh) on the kWh topic
publishKWh ==
  /\ pc = "L286"
  /\ pubKWh' = String2(dKWh)
  /\ okKWh' = Connected
  /\ clientState' = StateAfterCheck
  /\ gOwed' = [gOwed EXCEPT !.energy = RSub(@, dKWh)]
  /\ pc' = "L289"
  /\ UNCHANGED <<ldTotalW, ldCount, wake, after, inLoop>>
  /\ UNCHANGED <<globals, now, attached, netUp, downAt, sock, pubWatts,
                 okWatts, budgets>>
  /\ UNCHANGED <<lastInterval, lastCmd, lastEdgeAt, winSpacings, winPowers,
                 raced, drained>>

\* lines 289-292: the four resets, one store each
resetPower ==
  /\ pc = "L289"
  /\ dPower' = Zero
  /\ pc' = "L290"
  /\ UNCHANGED <<ulPreviousMillis, ulCurrentMillis, dPulsePeriod, ulStartTime,
                 dKWh, uiIsrCount, dTotalW>>
  /\ UNCHANGED <<ldTotalW, ldCount, wake, after, inLoop>>
  /\ UNCHANGED <<now, attached, session, outputs, budgets, history>>

resetTotalW ==
  /\ pc = "L290"
  /\ dTotalW' = Zero
  /\ pc' = "L291"
  /\ UNCHANGED <<ulPreviousMillis, ulCurrentMillis, dPulsePeriod, dPower,
                 ulStartTime, dKWh, uiIsrCount>>
  /\ UNCHANGED <<ldTotalW, ldCount, wake, after, inLoop>>
  /\ UNCHANGED <<now, attached, session, outputs, budgets, history>>

resetCount ==
  /\ pc = "L291"
  /\ uiIsrCount' = 0
  /\ pc' = "L292"
  /\ UNCHANGED <<ulPreviousMillis, ulCurrentMillis, dPulsePeriod, dPower,
                 ulStartTime, dKWh, dTotalW>>
  /\ UNCHANGED <<ldTotalW, ldCount, wake, after, inLoop>>
  /\ UNCHANGED <<now, attached, session, outputs, budgets, history>>

\* line 292 left out: the report block ends without resetting dKWh
resetKWhSkipped ==
  /\ pc = "L292"
  /\ dKWh' = dKWh
  /\ drained' = Zero
  /\ pc' = "L297"
  /\ winSpacings' = {}
  /\ winPowers' = {}
  /\ ldTotalW' = Zero /\ ldCount' = 0
  /\ pubWatts' = None /\ pubKWh' = None /\ okWatts' = FALSE /\ okKWh' = FALSE
  /\ UNCHANGED <<ulPreviousMillis, ulCurrentMillis, dPulsePeriod, dPower,
                 ulStartTime, uiIsrCount, dTotalW>>
  /\ UNCHANGED <<wake, after, inLoop>>
  /\ UNCHANGED <<now, attached, session, budgets>>
  /\ UNCHANGED <<lastInterval, lastCmd, gOwed, lastEdgeAt, raced>>

resetKWh ==
  /\ pc = "L292"
  /\ dKWh' = Zero
  /\ drained' = dKWh
  /\ pc' = "L297"
  /\ winSpacings' = {}
  /\ winPowers' = {}
  /\ ldTotalW' = Zero /\ ldCount' = 0
  /\ pubWatts' = None /\ pubKWh' = None /\ okWatts' = FALSE /\ okKWh' = FALSE
  /\ UNCHANGED <<ulPreviousMillis, ulCurrentMillis, dPulsePeriod, dPower,
                 ulStartTime, uiIsrCount, dTotalW>>
  /\ UNCHANGED <<wake, after, inLoop>>
  /\ UNCHANGED <<now, attached, session, budgets>>
  /\ UNCHANGED <<lastInterval, lastCmd, gOwed, lastEdgeAt, raced>>

\* lines 297-308: on a negative client state wait 3 s and run setup() again;
\* otherwise sleep one second, the time base of the loop
stateCheck ==
  /\ pc = "L297"
  /\ IF clientState < 0
     THEN Sleep(3000, "L157") /\ inLoop' = TRUE
     ELSE Sleep(1000, "L263") /\ UNCHANGED inLoop
  /\ drained' = Zero
  /\ UNCHANGED <<ldTotalW, ldCount>>
  /\ UNCHANGED <<globals, now, attached, session, outputs, budgets>>
  /\ UNCHANGED <<lastInterval, lastCmd, gOwed, lastEdgeAt, winSpacings,
                 winPowers, raced>>

\* lines 263-308, k times over: iterations of loop() in which nothing
\* arrives and no report is due only store the time and sleep one second.
\* The k iterations up to the next busy one are taken in one step.
idleLoops ==
  /\ pc = "L263"
  /\ Connected
  /\ ~Busy(now)
  /\ reports < MaxReports
  /\ LET k == CHOOSE j \in 1..(uiUpdate + 1) :
                 /\ Busy(now + 1000 * j)
                 /\ \A i \in 1..(j - 1) : ~Busy(now + 1000 * i)
     IN /\ ulCurrentMillis' = now + 1000 * (k - 1)
        /\ now' = now + 1000 * k
        /\ wake' = now + 1000 * k
  /\ after' = "L263"
  /\ pc' = "L263"
  /\ UNCHANGED <<ulPreviousMillis, dPulsePeriod, dPower, ulStartTime, dKWh,
                 uiIsrCount, dTotalW>>
  /\ UNCHANGED <<ldTotalW, ldCount, inLoop>>
  /\ UNCHANGED <<attached, session, outputs, budgets, history>>

(* -------------------------------- time --------------------------------- *)
\* the instants after `now`, up to the end of the delay, at which something
\* can happen: an edge at one of the EdgeIntervals, or the wake-up
Instants ==
  {t \in {ulStartTime + i : i \in EdgeIntervals} \cup {wake} :
     t > now /\ t <= wake}

\* time passes while the main context sleeps in delay(): millis() moves to
\* the next such instant, and at the wake-up the main context goes on
tick ==
  /\ pc = "delay"
  /\ now < wake
  /\ reports < MaxReports
  /\ netUp \/ now < downAt + MaxOutage
  /\ now' = CHOOSE t \in Instants : \A u \in Instants : t <= u
  /\ pc' = IF now' = wake THEN after ELSE "delay"
  /\ UNCHANGED <<ldTotalW, ldCount, wake, after, inLoop>>
  /\ UNCHANGED <<globals, attached, session, outputs, budgets, history>>

(* --------------------------- specification ----------------------------- *)
Next ==
  \/ isr
  \/ setup
  \/ setupWifi
  \/ setupMqtt
  \/ netDown
  \/ netRestore
  \/ clientLoop
  \/ idleLoops
  \/ \E b \in CmdBytes : callback(b)
  \/ restart
  \/ loopCheck
  \/ loadTotalW
  \/ loadCount
  \/ storeAverage
  \/ publishWatts
  \/ publishKWh
  \/ resetPower
  \/ resetTotalW
  \/ resetCount
  \/ resetKWh
  \/ stateCheck
  \/ tick

Spec == Init /\ [][Next]_vars

(* ------------- the clear command, one 32-bit store at a time ------------ *)
\* The processor stores 32 bits at a time: dKWh = 0.0 (line 129) is two
\* stores, and the handler may run between them.  The handler itself is not
\* preempted: it loads both words, adds, and stores both words.
\*
\* A double whose two words come from two values is <<"torn", h, l>>: the
\* high word of h and the low word of l.  Mixed is a double computed from
\* such a value, known only to be none of the values involved.
Mixed == <<"mixed">>
IsWhole(x) == Len(x) = 2
HiOf(x) == IF Len(x) = 3 THEN x[2] ELSE x
LoOf(x) == IF Len(x) = 3 THEN x[3] ELSE x
Cell(h, l) == IF h = l THEN h ELSE <<"torn", h, l>>
\* the store of one word of the value v into the double x
StoreHi(x, v) == Cell(v, LoOf(x))
StoreLo(x, v) == Cell(HiOf(x), v)

\* line 97 on the two words the handler loads.  Adding 0.0 changes nothing;
\* a value with a zero high word is subnormal, below half an ulp of any
\* energy a sample adds, so the sum is that energy.
DAdd(x, e) ==
  IF IsWhole(x) THEN RAdd(x, e)
  ELSE IF e = Zero THEN x
  ELSE IF HiOf(x) = Zero THEN e
  ELSE Mixed

\* the samples accepted before the command arrived: the intervals since
\* ulStartTime, all earlier than t, of at most MaxEdges accepted edges
PriorSamples(t) ==
  {S \in SUBSET {i \in EdgeIntervals : i < t /\ ~Debounced(PulsePeriod(i, 0))} :
     Cardinality(S) <= MaxEdges}
PriorPower(i) == Filtered(InstantPower(PulsePeriod(i, 0)))
Latest(S) == CHOOSE i \in S : \A j \in S : j <= i

\* what isr has accumulated from the samples S
RECURSIVE TotalsOf(_)
TotalsOf(S) ==
  IF S = {} THEN Totals(0, Zero, Zero)
  ELSE LET i == Latest(S)
           t == TotalsOf(S \ {i})
       IN Totals(t.count + 1, RAdd(t.power, PriorPower(i)),
                 AddEnergy(t.energy, PulsePeriod(i, 0), PriorPower(i)))

\* callback() is about to execute line 129: setup() ran at time 0, the
\* session is up, some samples have been accumulated, a 'c' message has
\* arrived at a time at which an edge may arrive as well
TearInit ==
  \E t \in EdgeIntervals : \E S \in PriorSamples(t) :
    /\ now = t /\ pc = "L129" /\ lastCmd = "c"
    /\ ulStartTime = 0 /\ ulPreviousMillis = 0
    /\ ulCurrentMillis = IF t >= 1000 THEN t - 1000 ELSE 0
    /\ uiIsrCount = TotalsOf(S).count
    /\ dTotalW = TotalsOf(S).power
    /\ dKWh = TotalsOf(S).energy
    /\ dPower = IF S = {} THEN Zero ELSE PriorPower(Latest(S))
    /\ dPulsePeriod = IF S = {} THEN Zero ELSE PulsePeriod(Latest(S), 0)
    /\ lastInterval = IF S = {} THEN -1 ELSE Latest(S)
    /\ lastEdgeAt = IF S = {} THEN 0 ELSE Latest(S)
    /\ ldTotalW = Zero /\ ldCount = 0 /\ wake = t /\ after = "L263"
    /\ inLoop = FALSE /\ attached = TRUE
    /\ netUp = TRUE /\ downAt = 0 /\ sock = TRUE /\ clientState = MQTT_CONNECTED
    /\ pubWatts = None /\ pubKWh = None /\ okWatts = FALSE /\ okKWh = FALSE
    /\ edges = 0 /\ drops = 0 /\ reports = 0
    /\ gOwed = Totals(0, Zero, Zero)
    /\ winSpacings = {} /\ winPowers = {} /\ raced = FALSE /\ drained = Zero

\* line 129, first store: the compiler chooses which word goes first
clearFirstWord ==
  /\ pc = "L129"
  /\ \/ dKWh' = StoreHi(dKWh, Zero) /\ pc' = "L129lo"
     \/ dKWh' = StoreLo(dKWh, Zero) /\ pc' = "L129hi"
  /\ UNCHANGED <<ulPreviousMillis, ulCurrentMillis, dPulsePeriod, dPower,
                 ulStartTime, uiIsrCount, dTotalW>>
  /\ UNCHANGED <<ldTotalW, ldCount, wake, after, inLoop>>
  /\ UNCHANGED <<now, attached, session, outputs, budgets, history>>

\* line 129, second store; callback() and client.loop() return
clearSecondWord ==
  /\ pc \in {"L129lo", "L129hi"}
  /\ dKWh' = IF pc = "L129lo" THEN StoreLo(dKWh, Zero) ELSE StoreHi(dKWh, Zero)
  /\ pc' = "L274"
  /\ UNCHANGED <<ulPreviousMillis, ulCurrentMillis, dPulsePeriod, dPower,
                 ulStartTime, uiIsrCount, dTotalW>>
  /\ UNCHANGED <<ldTotalW, ldCount, wake, after, inLoop>>
  /\ UNCHANGED <<now, attached, session, outputs, budgets, history>>

\* isr(), lines 66-101, on the words of dKWh as it finds them; gOwed holds
\* what the samples accepted since the command arrived have added
isrWords ==
  /\ attached
  /\ edges < MaxEdges
  /\ ElapsedMs(now, ulStartTime) \in EdgeIntervals
  /\ edges' = edges + 1
  /\ lastInterval' = ElapsedMs(now, ulStartTime)
  /\ LET period == PulsePeriod(now, ulStartTime)
         power == Filtered(InstantPower(period))
     IN IF Debounced(period)
        THEN /\ dPulsePeriod' = Zero
             /\ UNCHANGED <<dPower, dKWh, uiIsrCount, dTotalW>>
             /\ UNCHANGED <<gOwed, lastEdgeAt>>
        ELSE /\ dPulsePeriod' = period
             /\ uiIsrCount' = uiIsrCount + 1
             /\ dPower' = power
             /\ dTotalW' = RAdd(dTotalW, power)
             /\ dKWh' = DAdd(dKWh, EnergyOf(period, power))
             /\ gOwed' = Totals(gOwed.count + 1, RAdd(gOwed.power, power),
                                RAdd(gOwed.energy, EnergyOf(period, power)))
             /\ lastEdgeAt' = now
  /\ UNCHANGED <<ulPreviousMillis, ulCurrentMillis, ulStartTime>>
  /\ UNCHANGED <<mainCtx, now, attached, session, outputs>>
  /\ UNCHANGED <<drops, reports, lastCmd, winSpacings, winPowers, raced, drained>>

TearNext ==
  \/ clearFirstWord
  \/ clearSecondWord
  \/ isrWords

TearSpec == TearInit /\ [][TearNext]_vars

(* ------------------------------- claims -------------------------------- *)
\* steps of the behaviour, told from the history variables
IsrStep == edges' = edges + 1
ClearStep == lastCmd = "" /\ lastCmd' = "c"
RestartStep == lastCmd = "" /\ lastCmd' = "r"
DrainStep == pc = "L292" /\ pc' = "L297"
\* the interval, in ms, that an isr step measures
Interval == ElapsedMs(now, ulStartTime)
\* (K / s) * 3600 for a spacing of ms milliseconds
PowerAt(ms) == Norm(PULSES_KWH_RES * HOUR * 1000, ms)
\* the 0.09 s debounce threshold, in ms
ThresholdMs == (SECOND_ISR_PERIOD[1] * 1000) \div SECOND_ISR_PERIOD[2]

\* C1: outside the report block, the samples accepted and not yet used by a
\* report (or removed by a clear) are exactly those the accumulators hold,
\* in count, power and energy: none is lost at a drain, none is counted twice.
C1_NoSampleLostOrDoubled ==
  pc \notin ReportPcs => gOwed = Totals(uiIsrCount, dTotalW, dKWh)

\* C2: when a report with a positive sample count has published on the watts
\* topic, the payload is the formatted quotient of the loaded total and count.
C2_PublishedIsAverage ==
  (pc = "L286" /\ ldCount > 0) => pubWatts = String2(Average(ldTotalW, ldCount))

\* C3: when a report made with a sample count of 0 has published on the watts
\* topic, the payload is 0.
C3_ZeroSamplesPublishZero ==
  (pc = "L286" /\ ldCount = 0) => pubWatts = String2(Zero)

\* C4: an isr step that measures an interval of at most the debounce
\* threshold changes none of uiIsrCount, dTotalW, dKWh and ulStartTime.
C4_DebouncedEdgeDiscarded ==
  [][(IsrStep /\ Interval <= ThresholdMs)
       => UNCHANGED <<uiIsrCount, dTotalW, dKWh, ulStartTime>>]_vars

\* C4 witness: an edge measured at exactly 0.09 s has been discarded
C4_Witness ==
  lastInterval = ThresholdMs /\ dPulsePeriod = Zero /\ uiIsrCount = 0

\* C5: an isr step that accepts an edge sets the timing reference to the
\* current time, and the interval it measured is the time since the previous
\* accepted edge.
C5_AcceptedEdgeSetsReference ==
  [][(IsrStep /\ Interval > ThresholdMs)
       => (ulStartTime' = now /\ lastInterval' = now - lastEdgeAt)]_vars

\* C6: when the samples of a window all arrived at one spacing s, above the
\* threshold and within the power ceiling, and no edge arrived inside the
\* report block, every sample's power was (K/s)*3600 and that is the
\* published average.
C6_ConstantSpacingAverage ==
  (/\ pc = "L286" /\ ~raced /\ ldCount > 0
   /\ \E ms \in winSpacings :
        /\ winSpacings = {ms}
        /\ ms > ThresholdMs
        /\ RLeq(PowerAt(ms), R(MAX_POWER)))
  => \E ms \in winSpacings :
        /\ winPowers = {PowerAt(ms)}
        /\ pubWatts = String2(PowerAt(ms))

\* C7: an isr step that accepts an edge whose derived power exceeds MAX_POWER
\* adds one to uiIsrCount and leaves dTotalW and dKWh as they were.
C7_OverCeilingAddsNothing ==
  [][(IsrStep /\ Interval > ThresholdMs
        /\ RLess(R(MAX_POWER), PowerAt(Interval)))
       => (/\ uiIsrCount' = uiIsrCount + 1
           /\ dTotalW' = dTotalW
           /\ dKWh' = dKWh)]_vars

\* C7 witness: a second sample, over the ceiling, has been counted while the
\* totals still hold the first sample's power and energy
C7_Witness ==
  /\ lastInterval = 91 /\ uiIsrCount = 2 /\ dPower = Zero
  /\ RLess(Zero, dTotalW) /\ RLess(Zero, dKWh)

\* C8 as claimed: dKWh never decreases in a step other than a clear command
\* or a restart.
C8_EnergyDropsOnlyOnClearOrRestart ==
  [][RLeq(dKWh, dKWh') \/ ClearStep \/ RestartStep]_vars

\* C8 as amended: dKWh never decreases in a step other than a clear command,
\* a restart or the reset that ends a window report (line 292).
C8_EnergyDropsOnlyOnClearRestartOrDrain ==
  [][RLeq(dKWh, dKWh') \/ ClearStep \/ RestartStep \/ DrainStep]_vars

\* C8 witness: the reset of a window report has just removed energy
C8_Witness == pc = "L297" /\ RLess(Zero, drained) /\ dKWh = Zero

\* C9: when a report has samples to report, both of its messages are handed
\* to an active session before its totals are reset.
C9_NoDrainWhileSessionDown ==
  (pc = "L289" /\ ldCount > 0) => (okWatts /\ okKWh)

\* C10: a clear command sets dKWh to 0 and leaves uiIsrCount, dTotalW,
\* ulStartTime and ulPreviousMillis unchanged.
C10_ClearResetsEnergyOnly ==
  [][ClearStep
       => (/\ dKWh' = Zero
           /\ UNCHANGED <<uiIsrCount, dTotalW, ulStartTime, ulPreviousMillis>>)]_vars

\* C10 witness: a clear command has just zeroed the energy of a window that
\* still holds its samples
C10_Witness ==
  /\ lastCmd = "c" /\ dKWh = Zero
  /\ uiIsrCount > 0 /\ RLess(Zero, dTotalW)

\* a message with a first byte other than 'c' and 'r' is handed to callback()
OtherStep == lastCmd = "" /\ lastCmd' \notin {"", "c", "r"}

\* C11: a command whose first byte is neither 'c' nor 'r' changes none of the
\* sketch's globals, does not restart (the handler stays attached, millis()
\* goes on) and loop() continues at line 274.
C11_UnknownCommandIgnored ==
  [][OtherStep => (/\ UNCHANGED <<globals, now, attached, session>>
                   /\ pc' = "L274")]_vars

\* C11 witness: an unknown command has been received with a sample and its
\* energy accumulated, and they are still there
C11_Witness ==
  /\ lastCmd = "x" /\ pc = "L274"
  /\ uiIsrCount > 0 /\ RLess(Zero, dTotalW) /\ RLess(Zero, dKWh)

\* C12: a restart command puts every global back to its initial value (count,
\* power total and energy are zero), detaches the handler, closes the session
\* and starts the sketch again at setup() with millis() at 0.
C12_RestartReturnsToInitial ==
  [][RestartStep
       => (/\ uiIsrCount' = 0 /\ dTotalW' = Zero /\ dKWh' = Zero
           /\ dPower' = Zero /\ dPulsePeriod' = Zero
           /\ ulStartTime' = 0 /\ ulPreviousMillis' = 0 /\ ulCurrentMillis' = 0
           /\ pc' = "L157" /\ ~attached' /\ ~sock' /\ now' = 0)]_vars

\* C12 witness: a restart has just removed accumulated energy, and the
\* sketch is back at the start of setup() with empty totals
C12_Witness ==
  /\ lastCmd = "r" /\ pc = "L157" /\ RLess(Zero, drained)
  /\ uiIsrCount = 0 /\ dTotalW = Zero /\ dKWh = Zero

\* loop() passes the test of line 277, and passes it into the report block
LoopCheckStep == pc = "L274" /\ pc' \in {"L282", "L297"}
ReportStep == pc = "L274" /\ pc' = "L282"
\* the window length, in ms
WindowMs == uiUpdate * 1000
\* the time base of loop(), line 308, in ms
LoopTickMs == 1000

\* C13: a loop iteration enters the report block exactly when at least one
\* window length has passed since ulPreviousMillis; entering it sets
\* ulPreviousMillis to the current time; ulPreviousMillis otherwise changes
\* only to the current time or with a restart, so two reports are at least a
\* window apart; and the test is never made later than one loop tick after
\* the end of the window.
C13_ReportOncePerWindow ==
  [][/\ LoopCheckStep =>
          ((ReportStep <=> ElapsedMs(now, ulPreviousMillis) >= WindowMs)
           /\ ElapsedMs(now, ulPreviousMillis) < WindowMs + LoopTickMs)
     /\ ReportStep => (ulPreviousMillis' = now /\ reports' = reports + 1)
     /\ (ulPreviousMillis' # ulPreviousMillis) =>
          (ulPreviousMillis' = now \/ RestartStep)
     /\ (reports' # reports) => ReportStep]_vars

\* C13 witness: a report has just started, a full window after the start
\* of the window, and the window has been restarted at the current time
C13_Witness ==
  /\ pc = "L282" /\ reports = 1
  /\ now >= WindowMs /\ ulPreviousMillis = now /\ ulCurrentMillis = now

\* K / 1000 kWh, the energy of one pulse
PulseEnergy == Norm(PULSES_KWH_RES, 1000)

ReconnectStep == pc = "L157" /\ inLoop /\ pc' = "L173"

\* C15: re-running setup() after a connection loss leaves uiIsrCount, dTotalW,
\* dKWh and the pulse timing reference ulStartTime as they were.
C15_ReconnectKeepsCapture ==
  [][ReconnectStep
       => UNCHANGED <<uiIsrCount, dTotalW, dKWh, ulStartTime>>]_vars

\* line 286 is executed
PublishKWhStep == pc = "L286" /\ pc' = "L289"

\* C16: line 286 hands the formatted current value of dKWh to publish() and
\* leaves it as it is; the report block then always goes on to line 292,
\* which sets dKWh to 0; in between only the interrupt handler changes dKWh.
C16_EnergyPublishedThenReset ==
  [][/\ PublishKWhStep => (pubKWh' = String2(dKWh) /\ dKWh' = dKWh)
     /\ DrainStep => (dKWh' = Zero /\ pubKWh' = None)
     /\ (pc \in {"L289", "L290", "L291"} /\ dKWh' # dKWh) => IsrStep
     /\ (pc \in {"L289", "L290", "L291", "L292"} /\ pc' # pc) =>
          pc' \in {"L290", "L291", "L292", "L297"}]_vars

\* C16 witness: a report has handed the formatted energy of its window to an
\* active session, and the reset is still to come
C16_Witness ==
  /\ pc = "L289" /\ okKWh /\ RLess(Zero, dKWh) /\ pubKWh = String2(dKWh)

\* C17: whatever publish() returned, the report block goes from line 285 to
\* line 286 and on to the resets, each reset stores its zero, the window has
\* been restarted at the time of the report, and when no edge arrived inside
\* the block nothing of the window is left in the accumulators after it.
C17_FailedPublishNotRetried ==
  [][/\ (pc = "L285" /\ pc' # pc) => pc' = "L286"
     /\ (pc = "L286" /\ pc' # pc) => pc' = "L289"
     /\ (pc = "L289" /\ pc' # pc) => (pc' = "L290" /\ dPower' = Zero)
     /\ (pc = "L290" /\ pc' # pc) => (pc' = "L291" /\ dTotalW' = Zero)
     /\ (pc = "L291" /\ pc' # pc) => (pc' = "L292" /\ uiIsrCount' = 0)
     /\ (pc = "L292" /\ pc' # pc) => (pc' = "L297" /\ dKWh' = Zero)
     /\ pc \in ReportPcs => ulPreviousMillis = ulCurrentMillis
     /\ (DrainStep /\ ~raced) =>
          (uiIsrCount' = 0 /\ dTotalW' = Zero /\ dKWh' = Zero)]_vars

\* C17 witness: both publish calls of a report with a sample failed, and the
\* totals have been reset all the same
C17_Witness ==
  /\ pc = "L292" /\ ldCount > 0 /\ ~okWatts /\ ~okKWh
  /\ pubWatts # None /\ pubKWh # None
  /\ uiIsrCount = 0 /\ dTotalW = Zero

\* C18: no step shows the main context a sample partly recorded.  A step that
\* adds one to uiIsrCount is a run of the handler and also adds that sample's
\* power to dTotalW and its energy to dKWh; the totals grow in no other step;
\* and the handler's step does not move the main context.
C18_SampleRecordedWhole ==
  [][/\ (uiIsrCount' = uiIsrCount + 1) =>
          (/\ IsrStep
           /\ dTotalW' = RAdd(dTotalW, dPower')
           /\ dKWh' = RAdd(dKWh, EnergyOf(dPulsePeriod', dPower')))
     /\ (RLess(dTotalW, dTotalW') \/ RLess(dKWh, dKWh')) =>
          uiIsrCount' = uiIsrCount + 1
     /\ IsrStep => UNCHANGED mainCtx]_vars

\* C18 witness: the handler has recorded a sample while the main context is
\* inside the report block, between line 282 and line 285, and the count,
\* the power total and the energy all hold it
C18_Witness ==
  /\ pc = "L285" /\ raced /\ uiIsrCount = 1
  /\ RLess(Zero, dTotalW) /\ dKWh = PulseEnergy

\* C20: setup() run again from loop() sets the window start ulPreviousMillis
\* and the pulse timing reference ulStartTime to the current time; and a
\* report starts only when a full window has passed since the window start
\* and since the last run of setup(), whose time ulStartTime holds.
C20_ReconnectRestartsWindow ==
  [][/\ ReconnectStep => (ulPreviousMillis' = now /\ ulStartTime' = now)
     /\ ReportStep => (/\ ElapsedMs(now, ulPreviousMillis) >= WindowMs
                       /\ ElapsedMs(now, ulStartTime) >= WindowMs)]_vars

\* C20 witness: more than a window after boot, with a sample waiting and the
\* session back, loop() finds no report due because the reconnect restarted
\* the window
C20_Witness ==
  /\ pc = "L297" /\ inLoop /\ Connected /\ reports = 0
  /\ now >= WindowMs /\ ElapsedMs(now, ulPreviousMillis) < WindowMs
  /\ uiIsrCount > 0

\* C19: once the clear command and the handler racing with it have both
\* completed, dKWh is a whole value: 0, or the energy of the last one or more
\* of the samples accepted since the command arrived.
C19_ClearRaceLeavesWholeValue ==
  (pc = "L274" /\ edges > 0)
  => \E k \in 0..edges :
        /\ RLeq(Norm(k * PULSES_KWH_RES, 1000), gOwed.energy)
        /\ dKWh = Norm(k * PULSES_KWH_RES, 1000)

====
